---- MODULE Spec2Model ----
(***************************************************************************)
(* scripts/extract-oci-description.py: read a Dockerfile, search it for    *)
(* the org.opencontainers.image.description label, print the value or an   *)
(* error, and exit 0, 2 or 3.                                              *)
(*                                                                         *)
(* Strings are sequences of one-character strings, so that containment,    *)
(* path normalisation and the regular-expression search are computed       *)
(* character by character.  A file on disk is a sequence of bytes: ASCII    *)
(* bytes are written as their character, BadByte is a byte that the        *)
(* locale's codec cannot decode.                                           *)
(***************************************************************************)
EXTENDS Naturals, Sequences, FiniteSets

VARIABLES
    argv,             \* sys.argv[1:], the positional arguments
    fs,               \* the file system: normalised path -> file
    fs0,              \* the file system as it was when the invocation started
    pc,               \* position in main / __main__
    dockerfile_path,  \* main's local: the pathlib.Path, as its str()
    dockerfile,       \* main's local: the text read
    match,            \* main's local: the result of re.search
    ret,              \* what main returned or raised
    stdout,           \* characters written to standard output
    stderr,           \* characters written to standard error
    status,           \* <<>> while running, <<n>> once the process exited with n
    reads,            \* the paths opened for reading by this invocation
    first             \* the previous invocation's arguments and outcome, or NoRun

vars == <<argv, fs, fs0, pc, dockerfile_path, dockerfile, match, ret,
          stdout, stderr, status, reads, first>>

----------------------------------------------------------------------------
(* Characters and text literals of the source *)

DQ == "\""
BS == "\\"
LF == "\n"
CR == "\r"
SQ == "'"
BadByte == "0xFF"

\* the literal part of the pattern, line 16 (the dots are escaped there)
KeyText ==
    <<"o", "r", "g", ".", "o", "p", "e", "n", "c", "o", "n", "t", "a", "i", "n", "e", "r", "s",
      ".", "i", "m", "a", "g", "e", ".", "d", "e", "s", "c", "r", "i", "p", "t", "i", "o", "n">>

\* line 8
DefaultPath ==
    <<"D", "o", "c", "k", "e", "r", "f", "i", "l", "e">>

\* line 12
FailedPrefix ==
    <<"F", "a", "i", "l", "e", "d", " ", "t", "o", " ", "r", "e", "a", "d", " ", "D", "o", "c",
      "k", "e", "r", "f", "i", "l", "e", " ", "a", "t", " ">>

\* line 21
MissingLabelText ==
    <<"M", "i", "s", "s", "i", "n", "g", " ", "o", "r", "g", ".", "o", "p", "e", "n", "c", "o",
      "n", "t", "a", "i", "n", "e", "r", "s", ".", "i", "m", "a", "g", "e", ".", "d", "e", "s",
      "c", "r", "i", "p", "t", "i", "o", "n", " ", "l", "a", "b", "e", "l", " ", "i", "n", " ",
      "D", "o", "c", "k", "e", "r", "f", "i", "l", "e">>

\* str(exc) of the OSError subclasses open() raises, up to the quoted file name
ENOENT ==
    <<"[", "E", "r", "r", "n", "o", " ", "2", "]", " ", "N", "o", " ", "s", "u", "c", "h", " ",
      "f", "i", "l", "e", " ", "o", "r", " ", "d", "i", "r", "e", "c", "t", "o", "r", "y", ":",
      " ">>

EACCES ==
    <<"[", "E", "r", "r", "n", "o", " ", "1", "3", "]", " ", "P", "e", "r", "m", "i", "s", "s",
      "i", "o", "n", " ", "d", "e", "n", "i", "e", "d", ":", " ">>

EISDIR ==
    <<"[", "E", "r", "r", "n", "o", " ", "2", "1", "]", " ", "I", "s", " ", "a", " ", "d", "i",
      "r", "e", "c", "t", "o", "r", "y", ":", " ">>

\* what the interpreter writes for an exception that leaves main (the frame
\* lines between the first and the last line are left out)
TracebackText ==
    <<"T", "r", "a", "c", "e", "b", "a", "c", "k", " ", "(", "m", "o", "s", "t", " ", "r", "e",
      "c", "e", "n", "t", " ", "c", "a", "l", "l", " ", "l", "a", "s", "t", ")", ":", "\n">>

DecodeErrorText ==
    <<"U", "n", "i", "c", "o", "d", "e", "D", "e", "c", "o", "d", "e", "E", "r", "r", "o", "r",
      ":", " ", "'", "u", "t", "f", "-", "8", "'", " ", "c", "o", "d", "e", "c", " ", "c", "a",
      "n", "'", "t", " ", "d", "e", "c", "o", "d", "e", " ", "b", "y", "t", "e", " ", "0", "x",
      "f", "f", "\n">>

----------------------------------------------------------------------------
(* Sequence helpers *)

RECURSIVE Flatten(_)
Flatten(ss) == IF ss = <<>> THEN <<>> ELSE Head(ss) \o Flatten(Tail(ss))

\* needle in hay, Python's `in` on str
Contains(hay, needle) ==
    \E i \in 1..(Len(hay) + 1) :
        /\ i + Len(needle) - 1 <= Len(hay)
        /\ SubSeq(hay, i, i + Len(needle) - 1) = needle

----------------------------------------------------------------------------
(* pathlib.Path(arg) and str() of it, line 8 and the f-string of line 12.   *)
(* PurePosixPath splits on "/", drops empty and "." components, keeps a     *)
(* leading "/" (exactly two leading slashes stay "//") and renders a path   *)
(* without components as ".".                                              *)

RECURSIVE SplitOn(_, _)
SplitOn(s, c) ==
    IF \A i \in 1..Len(s) : s[i] # c THEN <<s>>
    ELSE LET k == CHOOSE i \in 1..Len(s) : s[i] = c /\ \A j \in 1..(i - 1) : s[j] # c
         IN  <<SubSeq(s, 1, k - 1)>> \o SplitOn(SubSeq(s, k + 1, Len(s)), c)

RECURSIVE Join(_, _)
Join(ps, sep) ==
    IF ps = <<>> THEN <<>>
    ELSE IF Len(ps) = 1 THEN ps[1]
    ELSE ps[1] \o sep \o Join(Tail(ps), sep)

KeptComponent(p) == Len(p) > 0 /\ p # <<".">>

PathParts(s) == SelectSeq(SplitOn(s, "/"), KeptComponent)

LeadingSlashes(s) ==
    Cardinality({n \in 1..Len(s) : \A i \in 1..n : s[i] = "/"})

PathRoot(s) ==
    LET n == LeadingSlashes(s)
    IN  IF n = 0 THEN <<>> ELSE IF n = 2 THEN <<"/", "/">> ELSE <<"/">>

PathStr(s) ==
    LET r == PathRoot(s)
        p == Join(PathParts(s), <<"/">>)
    IN  IF r = <<>> /\ p = <<>> THEN <<".">> ELSE r \o p

\* variant: the last argument instead of the first (sys.argv[-1])
ResolveLastArg(args) ==
    IF Len(args) > 0 THEN PathStr(args[Len(args)]) ELSE PathStr(DefaultPath)

\* line 8: the first positional argument when there is one, else "Dockerfile"
ResolvePathOf(args) ==
    IF Len(args) > 0 THEN PathStr(args[1]) ELSE PathStr(DefaultPath)

----------------------------------------------------------------------------
(* The file system and Path.read_text(), line 10 *)

MissingFile == [kind |-> "missing", bytes |-> <<>>]
Directory   == [kind |-> "dir", bytes |-> <<>>]
DeniedFile  == [kind |-> "denied", bytes |-> <<>>]
RegularFile(b) == [kind |-> "file", bytes |-> b]

\* the file a path names; a path the file system does not hold is missing
Lookup(files, path) ==
    IF path \in DOMAIN files THEN files[path]
    ELSE IF path = <<".">> THEN Directory ELSE MissingFile

\* open() raises an OSError subclass for these
OpenFails(f) == f.kind # "file"

\* the locale codec (strict) raises UnicodeDecodeError, a ValueError, on these
DecodeFails(f) == f.kind = "file" /\ \E i \in 1..Len(f.bytes) : f.bytes[i] = BadByte

\* text mode, newline=None: "\r\n" and a lone "\r" are read as "\n"
UniversalNewlines(s) ==
    LET AfterCR(i) == i > 1 /\ s[i - 1] = CR
        Kept(i) == ~(s[i] = LF /\ AfterCR(i))
        idx == SelectSeq([i \in 1..Len(s) |-> i], Kept)
    IN  [k \in 1..Len(idx) |-> IF s[idx[k]] = CR THEN LF ELSE s[idx[k]]]

ReadTextOf(f) == UniversalNewlines(f.bytes)

\* repr() of a file name without quotes, backslashes or control characters
Repr(s) == <<SQ>> \o s \o <<SQ>>

\* str(exc) for the OSError open() raised
OSErrorStr(path, f) ==
    (CASE f.kind = "missing" -> ENOENT
       [] f.kind = "dir"     -> EISDIR
       [] f.kind = "denied"  -> EACCES) \o Repr(path)

\* print(text, file=...): the text and a newline
PrintLine(text) == text \o <<LF>>

\* variant: the message without the path, f"Failed to read Dockerfile: {exc}"
FailedToReadNoPath(path, f) ==
    <<"F", "a", "i", "l", "e", "d", " ", "t", "o", " ", "r", "e", "a", "d", " ",
      "D", "o", "c", "k", "e", "r", "f", "i", "l", "e", ":", " ">> \o OSErrorStr(path, f)

\* line 12
FailedToReadMessage(path, f) ==
    FailedPrefix \o path \o <<":", " ">> \o OSErrorStr(path, f)

----------------------------------------------------------------------------
(* re.search, lines 15-18.  A pattern is a sequence of items, each a        *)
(* character class with a quantifier; quantifiers are greedy and the        *)
(* matcher backtracks, as the re module does.                              *)

Whitespace == {" ", "\t", LF, CR, "\f"}

One(chars)    == [neg |-> FALSE, set |-> chars, q |-> "one"]
Star(chars)   == [neg |-> FALSE, set |-> chars, q |-> "star"]
PlusNot(chars) == [neg |-> TRUE, set |-> chars, q |-> "plus"]

Literal(s) == [i \in 1..Len(s) |-> One({s[i]})]

\* variant: the pattern without \s*
SpaceItemNone == Star({})

\* \s*  (the str pattern's \s; of its characters the inputs use these)
SpaceItem == Star(Whitespace)

\* variant: [^"\n]+, a value of one line only
ValueItemOneLine == PlusNot({DQ, LF})

\* variant: [^"]*, a value that may be empty
ValueItemStar == [neg |-> TRUE, set |-> {DQ}, q |-> "star"]

\* [^"]+
ValueItem == PlusNot({DQ})

\* r'org\.opencontainers\.image\.description\s*=\s*"([^"]+)"'
LabelPattern ==
    Literal(KeyText) \o
    <<SpaceItem, One({"="}), SpaceItem, One({DQ}), ValueItem, One({DQ})>>

\* the item inside the parentheses: group 1
GroupItem == Len(KeyText) + 5

InClass(c, item) == IF item.neg THEN c \notin item.set ELSE c \in item.set

\* how many characters from position ti on are in the item's class
RunLength(item, text, ti) ==
    LET stops == {j \in ti..Len(text) : ~InClass(text[j], item)}
    IN  IF stops = {} THEN Len(text) + 1 - ti
        ELSE (CHOOSE j \in stops : \A k \in stops : j <= k) - ti

NoMatchHere == [ok |-> FALSE, ends |-> <<>>]

\* match pat[pi..] at text[ti..]: ends[k] is the position after item pi+k-1
RECURSIVE MatchHere(_, _, _, _)
RECURSIVE Greedy(_, _, _, _, _, _)
MatchHere(pat, pi, text, ti) ==
    IF pi > Len(pat) THEN [ok |-> TRUE, ends |-> <<>>]
    ELSE LET item == pat[pi]
         IN  IF item.q = "one"
             THEN IF ti <= Len(text) /\ InClass(text[ti], item)
                  THEN LET r == MatchHere(pat, pi + 1, text, ti + 1)
                       IN  IF r.ok THEN [ok |-> TRUE, ends |-> <<ti + 1>> \o r.ends]
                           ELSE NoMatchHere
                  ELSE NoMatchHere
             ELSE Greedy(pat, pi, text, ti, RunLength(item, text, ti),
                         IF item.q = "plus" THEN 1 ELSE 0)

\* greedy with backtracking: the most repetitions, from n down to least,
\* after which the rest of the pattern matches
Greedy(pat, pi, text, ti, n, least) ==
    LET good == {k \in least..n : MatchHere(pat, pi + 1, text, ti + k).ok}
    IN  IF good = {} THEN NoMatchHere
        ELSE LET k == CHOOSE g \in good : \A h \in good : h <= g
             IN  [ok |-> TRUE,
                  ends |-> <<ti + k>> \o MatchHere(pat, pi + 1, text, ti + k).ends]

NoMatch == [found |-> FALSE, start |-> 0, ends |-> <<>>]

\* variant: the rightmost position at which the pattern matches
SearchLastFrom(pat, text, from) ==
    LET starts == {i \in from..(Len(text) + 1) : MatchHere(pat, 1, text, i).ok}
    IN  IF starts = {} THEN NoMatch
        ELSE LET i == CHOOSE j \in starts : \A k \in starts : k <= j
             IN  [found |-> TRUE, start |-> i, ends |-> MatchHere(pat, 1, text, i).ends]

\* the leftmost position at which the pattern matches
SearchFrom(pat, text, from) ==
    LET starts == {i \in from..(Len(text) + 1) : MatchHere(pat, 1, text, i).ok}
    IN  IF starts = {} THEN NoMatch
        ELSE LET i == CHOOSE j \in starts : \A k \in starts : j <= k
             IN  [found |-> TRUE, start |-> i, ends |-> MatchHere(pat, 1, text, i).ends]

Search(text) == SearchFrom(LabelPattern, text, 1)

\* match.group(1), line 26
Group1(text, m) == SubSeq(text, m.ends[GroupItem - 1], m.ends[GroupItem] - 1)

----------------------------------------------------------------------------
(* Inputs: file contents, arguments, file systems *)

MaxParts == 2
MaxArgs == 2

\* key, optional whitespace, "=", optional whitespace, a quoted value
Assign(key, ws, val) == key \o ws \o <<"=">> \o ws \o <<DQ>> \o val \o <<DQ>>

\* the key with its first dot replaced, which the escaped dot must reject
OtherKey == [KeyText EXCEPT ![4] = "-"]

\* the pieces a file's bytes are put together from
PartSet ==
    { Assign(KeyText, <<>>, <<"a">>),
      Assign(KeyText, <<" ">>, <<"b">>),
      Assign(KeyText, <<"\t">>, <<"a", " ", "b">>),
      Assign(KeyText, <<>>, <<>>),
      Assign(KeyText, <<>>, <<"a", CR, LF, "b">>),
      Assign(KeyText, <<>>, <<"a", BS, DQ, "b">>),
      Assign(OtherKey, <<>>, <<"a">>),
      KeyText \o <<"=", DQ>>,
      KeyText, <<"=">>, <<DQ>>, <<"b">>, <<LF>>, <<BadByte>> }

Contents == UNION { [1..n -> PartSet] : n \in 0..MaxParts }

\* the path strings a caller passes
ArgPaths ==
    { <<".", "/", "x">>, <<"x", "/">>, <<"a", "/", "/", "b">>, DefaultPath }

ArgLists == UNION { [1..n -> ArgPaths] : n \in 0..MaxArgs }

\* the names the file system holds
FsPaths == { PathStr(p) : p \in ArgPaths }

LabelledFile == RegularFile(Assign(KeyText, <<>>, <<"a">>))
PlainFile    == RegularFile(<<"b">>)
BinaryFile   == RegularFile(<<BadByte>>)

NoRun ==
    [ran |-> FALSE, argv |-> <<>>, fs |-> <<>>,
     stdout |-> <<>>, stderr |-> <<>>, status |-> <<>>]

NoReturn == [kind |-> "none", code |-> 0]

\* the state of a process that has not run a line of main yet
Fresh ==
    /\ pc = "start"
    /\ dockerfile_path = <<>>
    /\ dockerfile = <<>>
    /\ match = NoMatch
    /\ ret = NoReturn
    /\ stdout = <<>>
    /\ stderr = <<>>
    /\ status = <<>>
    /\ reads = <<>>

\* any content at the file named, the other names missing
InitText ==
    /\ argv = <<>>
    /\ \E c \in Contents :
           fs = [p \in FsPaths |->
                    IF p = ResolvePathOf(argv) THEN RegularFile(Flatten(c)) ELSE MissingFile]

\* any argument list, any kind of file at one name
InitPaths ==
    /\ argv \in ArgLists
    /\ \E t \in FsPaths :
       \E f \in {MissingFile, Directory, DeniedFile, LabelledFile, PlainFile, BinaryFile} :
       \E o \in {MissingFile, PlainFile} :
           fs = [p \in FsPaths |-> IF p = t THEN f ELSE o]

Init ==
    /\ InitText \/ InitPaths
    /\ fs0 = fs
    /\ first = NoRun
    /\ Fresh

----------------------------------------------------------------------------
(* main, one action per step *)

\* line 8
ResolvePath ==
    /\ pc = "start"
    /\ dockerfile_path' = ResolvePathOf(argv)
    /\ pc' = "read"
    /\ UNCHANGED <<argv, fs, fs0, dockerfile, match, ret, stdout, stderr, status,
                   reads, first>>

\* variant: the file is opened for writing as well and left empty
ReadTextTruncating ==
    /\ pc = "read"
    /\ LET f == Lookup(fs, dockerfile_path)
       IN  /\ ~OpenFails(f)
           /\ ~DecodeFails(f)
           /\ dockerfile' = ReadTextOf(f)
    /\ fs' = [fs EXCEPT ![dockerfile_path] = RegularFile(<<>>)]
    /\ reads' = Append(reads, dockerfile_path)
    /\ pc' = "search"
    /\ UNCHANGED <<argv, fs0, dockerfile_path, match, ret, stdout, stderr,
                   status, first>>

\* line 10, the read succeeds
ReadText ==
    /\ pc = "read"
    /\ LET f == Lookup(fs, dockerfile_path)
       IN  /\ ~OpenFails(f)
           /\ ~DecodeFails(f)
           /\ dockerfile' = ReadTextOf(f)
    /\ reads' = Append(reads, dockerfile_path)
    /\ pc' = "search"
    /\ UNCHANGED <<argv, fs, fs0, dockerfile_path, match, ret, stdout, stderr,
                   status, first>>

\* line 10 raises an OSError; lines 11-13 print the message and return 2
ReadOSError ==
    /\ pc = "read"
    /\ LET f == Lookup(fs, dockerfile_path)
       IN  /\ OpenFails(f)
           /\ stderr' = stderr \o PrintLine(FailedToReadMessage(dockerfile_path, f))
    /\ ret' = [kind |-> "return", code |-> 2]
    /\ reads' = Append(reads, dockerfile_path)
    /\ pc' = "exit"
    /\ UNCHANGED <<argv, fs, fs0, dockerfile_path, dockerfile, match, stdout,
                   status, first>>

\* line 10 raises UnicodeDecodeError, which `except OSError` (line 11) does not
\* catch: the exception leaves main
ReadUnicodeError ==
    /\ pc = "read"
    /\ DecodeFails(Lookup(fs, dockerfile_path))
    /\ ret' = [kind |-> "raise", code |-> 1]
    /\ reads' = Append(reads, dockerfile_path)
    /\ pc' = "exit"
    /\ UNCHANGED <<argv, fs, fs0, dockerfile_path, dockerfile, match, stdout,
                   stderr, status, first>>

\* lines 15-18
SearchLabel ==
    /\ pc = "search"
    /\ match' = Search(dockerfile)
    /\ pc' = "matched"
    /\ UNCHANGED <<argv, fs, fs0, dockerfile_path, dockerfile, ret, stdout, stderr,
                   status, reads, first>>

\* variant: the missing label reported with the read failure's status
MissingLabelExit2 ==
    /\ pc = "matched"
    /\ ~match.found
    /\ stderr' = stderr \o PrintLine(MissingLabelText)
    /\ ret' = [kind |-> "return", code |-> 2]
    /\ pc' = "exit"
    /\ UNCHANGED <<argv, fs, fs0, dockerfile_path, dockerfile, match, stdout,
                   status, reads, first>>

\* lines 19-24
MissingLabel ==
    /\ pc = "matched"
    /\ ~match.found
    /\ stderr' = stderr \o PrintLine(MissingLabelText)
    /\ ret' = [kind |-> "return", code |-> 3]
    /\ pc' = "exit"
    /\ UNCHANGED <<argv, fs, fs0, dockerfile_path, dockerfile, match, stdout,
                   status, reads, first>>

\* lines 26-27
PrintValue ==
    /\ pc = "matched"
    /\ match.found
    /\ stdout' = stdout \o PrintLine(Group1(dockerfile, match))
    /\ ret' = [kind |-> "return", code |-> 0]
    /\ pc' = "exit"
    /\ UNCHANGED <<argv, fs, fs0, dockerfile_path, dockerfile, match, stderr,
                   status, reads, first>>

\* line 31: raise SystemExit(main()) with main's return value
SystemExit ==
    /\ pc = "exit"
    /\ ret.kind = "return"
    /\ status' = <<ret.code>>
    /\ pc' = "done"
    /\ UNCHANGED <<argv, fs, fs0, dockerfile_path, dockerfile, match, ret, stdout,
                   stderr, reads, first>>

\* line 31 when main raised: the interpreter prints the traceback and exits 1
UncaughtException ==
    /\ pc = "exit"
    /\ ret.kind = "raise"
    /\ stderr' = stderr \o TracebackText \o DecodeErrorText
    /\ status' = <<ret.code>>
    /\ pc' = "done"
    /\ UNCHANGED <<argv, fs, fs0, dockerfile_path, dockerfile, match, ret, stdout,
                   reads, first>>

----------------------------------------------------------------------------
(* The caller runs the program a second time: with the same arguments, or   *)
(* with other arguments after the first, or after changing a file other     *)
(* than the one that was read.                                             *)

OtherArgs(args) ==
    IF Len(args) = 0 THEN {}
    ELSE { <<args[1]>> } \cup { <<args[1], q>> : q \in ArgPaths }

OtherFiles(files, path) ==
    { [files EXCEPT ![p] = f] : p \in DOMAIN files \ {path}, f \in {LabelledFile} }

RunAgain ==
    /\ pc = "done"
    /\ ~first.ran
    /\ first' = [ran |-> TRUE, argv |-> argv, fs |-> fs,
                 stdout |-> stdout, stderr |-> stderr, status |-> status]
    /\ \/ argv' = argv /\ fs' = fs
       \/ argv' \in OtherArgs(argv) /\ fs' = fs
       \/ argv' = argv /\ fs' \in OtherFiles(fs, dockerfile_path)
    /\ fs0' = fs'
    /\ pc' = "start"
    /\ dockerfile_path' = <<>>
    /\ dockerfile' = <<>>
    /\ match' = NoMatch
    /\ ret' = NoReturn
    /\ stdout' = <<>>
    /\ stderr' = <<>>
    /\ status' = <<>>
    /\ reads' = <<>>

Next ==
    \/ ResolvePath
    \/ ReadText
    \/ ReadOSError
    \/ ReadUnicodeError
    \/ SearchLabel
    \/ MissingLabel
    \/ PrintValue
    \/ SystemExit
    \/ UncaughtException
    \/ RunAgain

Spec == Init /\ [][Next]_vars

----------------------------------------------------------------------------
(* What the properties speak of, stated without the matcher *)

Done == pc = "done"

\* the path the arguments name
NamedPath == IF Len(argv) > 0 THEN PathStr(argv[1]) ELSE DefaultPath

NamedFile == Lookup(fs, NamedPath)

\* the file can be opened and its bytes are text
Readable == NamedFile.kind = "file" /\ \A i \in 1..Len(NamedFile.bytes) : NamedFile.bytes[i] # BadByte

Blank == {" ", "\t", "\n", "\r", "\f"}

AllBlank(text, a, b) == \A k \in a..b : text[k] \in Blank

KeyLen == Len(KeyText)

\* the positions at which the key stands in the text
KeyStarts(text) ==
    {i \in 1..Len(text) : i + KeyLen - 1 <= Len(text) /\ SubSeq(text, i, i + KeyLen - 1) = KeyText}

\* the opening quotes that follow the key at i after blanks, "=" and blanks
Opens(text, i) ==
    {o \in (i + KeyLen + 1)..Len(text) :
        /\ text[o] = DQ
        /\ \E e \in (i + KeyLen)..(o - 1) :
              text[e] = "=" /\ AllBlank(text, i + KeyLen, e - 1) /\ AllBlank(text, e + 1, o - 1)}

\* the quote that closes the string opened at o
Closes(text, o) ==
    {c \in (o + 1)..Len(text) : text[c] = DQ /\ \A k \in (o + 1)..(c - 1) : text[k] # DQ}

\* the assignments of the text: <<key position, opening quote, closing quote>>
Assignments(text) ==
    UNION {{<<i, o, c>> : c \in Closes(text, o)} : <<i, o>> \in
              UNION {{<<i, o>> : o \in Opens(text, i)} : i \in KeyStarts(text)}}

ValueOf(text, a) == SubSeq(text, a[2] + 1, a[3] - 1)

NonEmptyAssignments(text) == {a \in Assignments(text) : a[3] > a[2] + 1}

\* the assignment of a non-empty set that stands first in the text
FirstOf(as) == CHOOSE a \in as : \A b \in as : a[1] <= b[1]

Line(v) == v \o <<"\n">>

SameOutcome ==
    /\ stdout = first.stdout
    /\ stderr = first.stderr
    /\ status = first.status

----------------------------------------------------------------------------
(* C1 *)

\* C1: when the file cannot be read as text (missing, a directory, permission
\* denied, undecodable bytes), the run ends with exit status 2 and a message on
\* standard error that holds the resolved path and the failure's description.
C1_ReadFailureExits2 ==
    (Done /\ ~Readable) =>
        /\ status = <<2>>
        /\ Contains(stderr, FailedPrefix \o NamedPath)
        /\ stdout = <<>>

----------------------------------------------------------------------------
(* C2 *)

\* C2 as stated: for every assignment key = "X" in a readable file's text, X free
\* of double quotes (X may be empty, the assignment may stand anywhere), the run
\* writes X and a newline to standard output and exits 0.
C2_EveryQuotedValuePrinted ==
    (Done /\ Readable) =>
        \A a \in Assignments(dockerfile) :
            stdout = Line(ValueOf(dockerfile, a)) /\ status = <<0>>

\* C2 amended: for every assignment key = "X" with X non-empty and free of double
\* quotes that no assignment with a non-empty value precedes, whatever blanks
\* stand around "=", the run writes exactly X and a newline to standard output,
\* nothing to standard error, and exits 0.
C2_FirstNonEmptyValuePrinted ==
    (Done /\ Readable) =>
        \A a \in NonEmptyAssignments(dockerfile) :
            (\A b \in NonEmptyAssignments(dockerfile) : a[1] <= b[1]) =>
                /\ stdout = Line(ValueOf(dockerfile, a))
                /\ stderr = <<>>
                /\ status = <<0>>

\* a run that printed a value whose assignment has blanks on both sides of "="
C2_Witness ==
    /\ Done /\ Readable /\ status = <<0>>
    /\ \E a \in NonEmptyAssignments(dockerfile) :
          /\ stdout = Line(ValueOf(dockerfile, a))
          /\ dockerfile[a[1] + KeyLen] \in {" ", "\t"}
          /\ dockerfile[a[2] - 1] \in {" ", "\t"}

----------------------------------------------------------------------------
(* C3 *)

\* C3: a finished run either wrote the value to standard output, nothing to
\* standard error, and exited 0, or wrote a message to standard error, nothing
\* to standard output, and exited 2 or 3; and standard output is written only
\* after the read and the search have succeeded.
C3_ExactlyTwoOutcomes ==
    /\ Done =>
          \/ status = <<0>> /\ stdout # <<>> /\ stderr = <<>>
          \/ status \in {<<2>>, <<3>>} /\ stderr # <<>> /\ stdout = <<>>
    /\ stdout # <<>> => (Readable /\ match.found)

----------------------------------------------------------------------------
(* C4 *)

\* C4 as stated: when the text holds several assignments (key, blanks, "=",
\* blanks, a double-quoted string, empty or not), the value printed is that of
\* the first of them.
C4_FirstQuotedStringPrinted ==
    (Done /\ Readable /\ status = <<0>> /\ Cardinality(Assignments(dockerfile)) >= 2) =>
        LET a == FirstOf(Assignments(dockerfile))
        IN  stdout = Line(ValueOf(dockerfile, a)) /\ match.start = a[1]

\* C4 amended: when the text holds several assignments whose double-quoted
\* string is non-empty, the run exits 0 and the value printed is that of the
\* first of them in text order; the match never starts at a later one.
C4_FirstNonEmptyMatchPrinted ==
    (Done /\ Readable /\ Cardinality(NonEmptyAssignments(dockerfile)) >= 2) =>
        LET a == FirstOf(NonEmptyAssignments(dockerfile))
        IN  /\ status = <<0>>
            /\ stdout = Line(ValueOf(dockerfile, a))
            /\ match.start = a[1]

\* a run over two assignments with different non-empty values
C4_Witness ==
    /\ Done /\ Readable /\ status = <<0>>
    /\ \E a, b \in NonEmptyAssignments(dockerfile) :
          /\ a[1] < b[1]
          /\ ValueOf(dockerfile, a) # ValueOf(dockerfile, b)
          /\ stdout = Line(ValueOf(dockerfile, a))

----------------------------------------------------------------------------
(* C5 *)

\* C5: a run exits 3 exactly when the file was read and its text holds no match
\* of the label pattern; standard error then holds the fixed line and standard
\* output is empty; exit 3 never follows a failed read and exit 2 never follows
\* a successful one.
C5_Exit3IffNoLabel ==
    Done =>
        /\ status = <<3>> <=> (Readable /\ NonEmptyAssignments(dockerfile) = {})
        /\ status = <<3>> => (stderr = Line(MissingLabelText) /\ stdout = <<>>)
        /\ status = <<2>> => ~Readable

\* a run that exited 3 on a text that holds the key
C5_Witness ==
    /\ Done /\ status = <<3>>
    /\ KeyStarts(dockerfile) # {}
    /\ stderr = Line(MissingLabelText)

----------------------------------------------------------------------------
(* C6 *)

Missing(path) == Lookup(fs, path).kind = "missing"

\* C6 as stated: for a nonexistent path argument the run exits 2, standard
\* output is empty and standard error holds the argument as the caller wrote it;
\* without an argument and without a Dockerfile the message names Dockerfile.
C6_MessageHoldsArgumentAsGiven ==
    Done =>
        /\ (Len(argv) > 0 /\ Missing(NamedPath)) =>
              status = <<2>> /\ stdout = <<>> /\ Contains(stderr, argv[1])
        /\ (Len(argv) = 0 /\ Missing(DefaultPath)) =>
              status = <<2>> /\ Contains(stderr, DefaultPath)

\* the argument is written as pathlib renders it: no "." component, no empty
\* component, no trailing "/"
InNormalForm(s) ==
    /\ s # <<>>
    /\ \A p \in {SplitOn(s, "/")[k] : k \in 1..Len(SplitOn(s, "/"))} : p # <<>> /\ p # <<".">>

\* C6 amended: for a nonexistent path argument the run exits 2, standard output
\* is empty and standard error holds the path as the path type renders it ("."
\* components, repeated "/" and a trailing "/" removed), which is the argument
\* itself when the caller wrote it in that form; without an argument and without
\* a Dockerfile the message names Dockerfile and the exit status is 2.
C6_MessageHoldsNormalisedPath ==
    Done =>
        /\ (Len(argv) > 0 /\ Missing(NamedPath)) =>
              /\ status = <<2>>
              /\ stdout = <<>>
              /\ Contains(stderr, FailedPrefix \o NamedPath \o <<":">>)
              /\ InNormalForm(argv[1]) => Contains(stderr, argv[1])
        /\ (Len(argv) = 0 /\ Missing(DefaultPath)) =>
              status = <<2>> /\ stdout = <<>> /\ Contains(stderr, DefaultPath)

\* a run on a nonexistent path whose argument pathlib rewrote
C6_Witness ==
    /\ Done /\ Len(argv) > 0 /\ Missing(NamedPath)
    /\ ~InNormalForm(argv[1])
    /\ status = <<2>>

----------------------------------------------------------------------------
(* C7 *)

SameFirstArgument(a, b) ==
    IF Len(a) = 0 \/ Len(b) = 0 THEN Len(a) = Len(b) ELSE a[1] = b[1]

\* C7: a finished run has read exactly one file, once: the one the first
\* argument names, or Dockerfile without arguments; and two runs whose first
\* argument (or absence of arguments) agree and that find the same file there
\* end the same, whatever the other arguments and the other files are.
C7_OnlyFirstArgumentMatters ==
    Done =>
        /\ reads = <<NamedPath>>
        /\ (Len(argv) = 0) => reads = <<DefaultPath>>
        /\ (first.ran /\ SameFirstArgument(argv, first.argv)
               /\ NamedFile = Lookup(first.fs, NamedPath)) => SameOutcome

\* a second run with another second argument, naming a file with a label
C7_Witness ==
    /\ Done /\ first.ran
    /\ Len(argv) = 2 /\ Len(first.argv) = 1
    /\ PathStr(argv[2]) # NamedPath
    /\ Lookup(fs, PathStr(argv[2])) = LabelledFile
    /\ status = <<3>>

----------------------------------------------------------------------------
(* C8 *)

\* C8: a run leaves the file system as it found it, and a second run with the
\* same arguments on the unchanged file system ends with the same standard
\* output, standard error and exit status.
C8_SecondRunSame ==
    /\ fs = fs0
    /\ (Done /\ first.ran /\ argv = first.argv /\ fs = first.fs) => SameOutcome

\* a second run, same arguments and files, that printed a value again
C8_Witness ==
    /\ Done /\ first.ran /\ argv = first.argv /\ fs = first.fs
    /\ status = <<0>> /\ first.status = <<0>> /\ stdout # <<>>

----------------------------------------------------------------------------
(* C9 *)

\* the text's only key stands in an assignment whose value holds a newline, or
\* whose closing quote follows a backslash (the value was written with \")
OnlyAssignmentIsRich(text) ==
    /\ Cardinality(KeyStarts(text)) = 1
    /\ Cardinality(Assignments(text)) = 1
    /\ LET a == FirstOf(Assignments(text))
       IN  \/ \E k \in (a[2] + 1)..(a[3] - 1) : text[k] = "\n"
           \/ a[3] - 1 > a[2] /\ text[a[3] - 1] = BS

\* C9 as stated: when the file's only label assignment has a value that spans
\* lines or holds an escaped double quote, the run exits 3 with the
\* missing-label line and writes nothing to standard output.
C9_RichValueIsNoMatch ==
    (Done /\ Readable /\ OnlyAssignmentIsRich(dockerfile)) =>
        /\ status = <<3>>
        /\ stdout = <<>>
        /\ stderr = Line(MissingLabelText)

\* C9 amended: when the file's only label assignment has a value that spans
\* lines or holds an escaped double quote, the run matches it and exits 0 with
\* nothing on standard error: a multi-line value is printed whole, newlines
\* included, and a value with an escaped double quote is printed up to and
\* including the backslash before the first such quote.
C9_RichValueIsPrinted ==
    (Done /\ Readable /\ OnlyAssignmentIsRich(dockerfile)) =>
        LET a == FirstOf(Assignments(dockerfile))
        IN  /\ status = <<0>>
            /\ stderr = <<>>
            /\ stdout = Line(ValueOf(dockerfile, a))

\* a run that printed a value of two lines
C9_Witness ==
    /\ Done /\ Readable /\ OnlyAssignmentIsRich(dockerfile)
    /\ Contains(stdout, <<"a", "\n", "b", "\n">>)
    /\ status = <<0>>

----------------------------------------------------------------------------
(* C10 *)

\* the value stands in the text between two double quotes
Quoted(text, v) ==
    \E p \in 2..Len(text) :
        /\ p + Len(v) <= Len(text)
        /\ text[p - 1] = DQ
        /\ SubSeq(text, p, p + Len(v) - 1) = v
        /\ text[p + Len(v)] = DQ

\* C10: when a run exits 0, standard output is a value and a newline, the value
\* non-empty, free of double quotes, and standing in the text read between two
\* double quotes; so when the first assignment of the text has the empty value,
\* the run exits 3 or prints the value of a later, non-empty assignment.
C10_PrintedValueShape ==
    (Done /\ status = <<0>>) =>
        /\ Len(stdout) >= 2
        /\ stdout[Len(stdout)] = "\n"
        /\ LET v == SubSeq(stdout, 1, Len(stdout) - 1)
           IN  /\ \A k \in 1..Len(v) : v[k] # DQ
               /\ Quoted(dockerfile, v)
               /\ LET as == Assignments(dockerfile)
                  IN  (as # {} /\ ValueOf(dockerfile, FirstOf(as)) = <<>>) =>
                          \E b \in NonEmptyAssignments(dockerfile) :
                              b[1] > FirstOf(as)[1] /\ v = ValueOf(dockerfile, b)

\* a run over an empty assignment followed by a non-empty one
C10_Witness ==
    /\ Done /\ status = <<0>>
    /\ Assignments(dockerfile) # {}
    /\ ValueOf(dockerfile, FirstOf(Assignments(dockerfile))) = <<>>
====
